---- MODULE Spec2Model ----
(***************************************************************************)
(* Model of httpd (src/mod.js): a Deno.serve callback that probes the      *)
(* file system for the requested path, delegates to serveDir when the path *)
(* exists and otherwise falls back to a caller-supplied handler, answering *)
(* with a 404 or 500 page when the handler produces nothing or throws.     *)
(*                                                                         *)
(* A JavaScript string is a sequence of pieces: a URL path is the sequence *)
(* of its characters, a header string the sequence of its colon-free       *)
(* chunks and ":" separators.                                              *)
(***************************************************************************)
EXTENDS Naturals, Sequences, FiniteSets

VARIABLES
  args,             \* Deno.args: the command-line arguments, each a string of characters
  optPort,          \* opts.port: [given |-> BOOLEAN, value |-> number]
  port,             \* the port handed to Deno.serve
  phase,            \* starting (httpd() not yet run), listening, failed (httpd() threw)
  cwd,              \* the working directory of the process
  opts,             \* the flag keys of the options object: a function on a subset of {"cors","ls"}
  optHeaders,       \* opts.headers: [given |-> BOOLEAN, list |-> sequence of header strings]
  handler,          \* TRUE when a handler callback was passed to httpd()
  headers_defaults, \* the Headers object built once by httpd()
  task,             \* one record per request slot: the state of that invocation of the callback
  served            \* number of requests accepted so far

vars == <<args, optPort, port, phase, cwd, opts, optHeaders, handler, headers_defaults, task, served>>

\* what httpd() is called with, and what it fixes before it listens
startup == <<args, optPort, port, phase, opts, optHeaders, handler>>

-----------------------------------------------------------------------------
(* Bounds *)

\* concurrent requests in flight
Slots == {"r1", "r2"}

\* total number of requests the listener accepts in one run
MaxRequests == 2

\* longest command line and longest opts.headers list tried at startup
MaxArgs == 2
MaxHeaders == 2

-----------------------------------------------------------------------------
(* Strings *)

Str(s) == <<s>>

TextHtml == Str("text/html")
TextPlain == Str("text/plain")
ContentType == Str("content-type")

\* String.prototype.toLowerCase on the header names of the model's vocabulary
LowerPiece(p) ==
  CASE p = "X-Extra" -> "x-extra"
    [] p = "Content-Security-Policy" -> "content-security-policy"
    [] OTHER -> p

Lower(s) == [i \in 1..Len(s) |-> LowerPiece(s[i])]

\* String.prototype.split(':'): the pieces between the separators
RECURSIVE SplitFrom(_, _, _)
SplitFrom(s, i, cur) ==
  IF i > Len(s) THEN <<cur>>
  ELSE IF s[i] = ":" THEN <<cur>> \o SplitFrom(s, i + 1, <<>>)
  ELSE SplitFrom(s, i + 1, Append(cur, s[i]))

Split(s) == SplitFrom(s, 1, <<>>)

\* Array.prototype.join(':')
JoinFirstOnly(parts) == IF parts = <<>> THEN <<>> ELSE parts[1]

RECURSIVE Join(_)
Join(parts) ==
  IF parts = <<>> THEN <<>>
  ELSE IF Len(parts) = 1 THEN parts[1]
  ELSE parts[1] \o <<":">> \o Join(Tail(parts))

-----------------------------------------------------------------------------
(* The Headers class: an ordered list of <<name, value>>, names lower-cased *)

\* a header value is stored without its leading and trailing whitespace
RECURSIVE TrimLeft(_)
TrimLeft(v) == IF v # <<>> /\ Head(v) = " " THEN TrimLeft(Tail(v)) ELSE v

RECURSIVE TrimRight(_)
TrimRight(v) ==
  IF v # <<>> /\ v[Len(v)] = " " THEN TrimRight(SubSeq(v, 1, Len(v) - 1)) ELSE v

Normalize(v) == TrimRight(TrimLeft(v))

\* Headers.append throws a TypeError unless the name is a non-empty token
ValidName(name) == name # <<>> /\ \A i \in 1..Len(name) : name[i] # " "

HeadersAppend(h, name, value) == Append(h, <<Lower(name), Normalize(value)>>)

HeadersHas(h, name) == \E i \in 1..Len(h) : h[i][1] = Lower(name)

HeadersGet(h, name) == SelectSeq(h, LAMBDA e : e[1] = Lower(name))

HeadersDelete(h, name) == SelectSeq(h, LAMBDA e : e[1] # Lower(name))

FirstIndex(h, name) == CHOOSE i \in 1..Len(h) :
  /\ h[i][1] = Lower(name)
  /\ \A j \in 1..(i - 1) : h[j][1] # Lower(name)

\* Headers.set: the first entry of that name takes the value, the others go
HeadersSet(h, name, value) ==
  IF HeadersHas(h, name)
  THEN LET k == FirstIndex(h, name)
       IN  SubSeq(h, 1, k - 1) \o << <<Lower(name), Normalize(value)>> >>
             \o HeadersDelete(SubSeq(h, k + 1, Len(h)), name)
  ELSE HeadersAppend(h, name, value)

\* new Headers(init): a new object holding the entries of init
HeadersCopy(h) == h

\* line 68 makes a new object, so what the handler does to its headers
\* argument leaves the template as it was
TemplateAfterShared(template, mutated) == mutated

TemplateAfter(template, mutated) == template

-----------------------------------------------------------------------------
(* httpd(handler, opts): the options object and the default header template *)

FlagKeys == {"cors", "ls"}

\* the options objects: each flag key absent, true or false
OptsObjects == UNION {[S -> BOOLEAN] : S \in SUBSET FlagKeys}

XExtra == <<"X-Extra", ":", "a", ":", "b">>

\* opts.headers: not given, or a list of header strings
OptHeaderChoices ==
  { [given |-> FALSE, list |-> <<>>],
    [given |-> TRUE, list |-> <<XExtra>>] }

\* `'k' in opts`
In(k, o) == k \in DOMAIN o

\* opts.k read as a condition: undefined (key absent) is falsy
Truthy(o, k) == In(k, o) /\ o[k]

\* opts.headers ?? []
HeaderList(oh) == IF oh.given THEN oh.list ELSE <<>>

AllowOrigin == Str("access-control-allow-origin")
AllowHeaders == Str("access-control-allow-headers")
AllowHeadersValue == Str("Origin, X-Requested-With, Content-Type, Accept, Range")

\* lines 34-37: one entry per header string, name before the first colon
RECURSIVE AppendConfigured(_, _)
AppendConfigured(h, list) ==
  IF list = <<>> THEN h
  ELSE LET headerSplit == Split(Head(list))
       IN  AppendConfigured(
             HeadersAppend(h, headerSplit[1], Join(Tail(headerSplit))),
             Tail(list))

\* line 38: if (opts.cors)
TemplateCors(o) == Truthy(o, "cors")

AppendCors(h) ==
  HeadersAppend(HeadersAppend(h, AllowOrigin, Str("*")), AllowHeaders, AllowHeadersValue)

\* lines 32-44
BuildHeadersDefaults(o, oh) ==
  LET h0 == HeadersAppend(<<>>, ContentType, TextHtml)
      h1 == AppendConfigured(h0, HeaderList(oh))
  IN  IF TemplateCors(o) THEN AppendCors(h1) ELSE h1

\* lines 34-37 throw when some header string has no valid name before its first colon
BuildThrows(oh) ==
  \E i \in 1..Len(HeaderList(oh)) : ~ValidName(Split(HeaderList(oh)[i])[1])

-----------------------------------------------------------------------------
(* Line 27: the port *)

Digits == {"0", "1", "2", "3", "4", "5", "6", "7", "8", "9"}

DigitValue(c) ==
  CASE c = "0" -> 0 [] c = "1" -> 1 [] c = "2" -> 2 [] c = "3" -> 3 [] c = "4" -> 4
    [] c = "5" -> 5 [] c = "6" -> 6 [] c = "7" -> 7 [] c = "8" -> 8 [] c = "9" -> 9

\* Number(s) for a string of decimal digits
RECURSIVE Number(_)
Number(s) ==
  IF s = <<>> THEN 0
  ELSE 10 * Number(SubSeq(s, 1, Len(s) - 1)) + DigitValue(s[Len(s)])

\* e.match(/^-p([0-9]{3,5})$/)?.pop(): the digits, a truthy string, on a match
MatchesPortFlag(e) ==
  /\ Len(e) >= 2 + 3
  /\ Len(e) <= 2 + 5
  /\ e[1] = "-"
  /\ e[2] = "p"
  /\ \A i \in 3..Len(e) : e[i] \in Digits

\* Deno.args.find(...): the first argument that matches, or undefined
ArgsFindLast(a) ==
  IF \E i \in 1..Len(a) : MatchesPortFlag(a[i])
  THEN [found |-> TRUE,
        arg |-> a[CHOOSE i \in 1..Len(a) :
                    /\ MatchesPortFlag(a[i])
                    /\ \A j \in (i + 1)..Len(a) : ~MatchesPortFlag(a[j])]]
  ELSE [found |-> FALSE, arg |-> <<>>]

RECURSIVE ArgsFind(_)
ArgsFind(a) ==
  IF a = <<>> THEN [found |-> FALSE, arg |-> <<>>]
  ELSE IF MatchesPortFlag(Head(a)) THEN [found |-> TRUE, arg |-> Head(a)]
  ELSE ArgsFind(Tail(a))

DefaultFlag == <<"-", "p", "5", "0", "0", "0">>

\* String.prototype.slice(2)
Slice2(e) == SubSeq(e, 3, Len(e))

\* Number(opts.port ?? (Deno.args.find(...) || '-p5000').slice(2))
ResolvePort(op, a) ==
  IF op.given THEN op.value
  ELSE LET hit == ArgsFind(a)
       IN  Number(Slice2(IF hit.found THEN hit.arg ELSE DefaultFlag))

NoPortOption == [given |-> FALSE, value |-> 0]

PortOptions == {NoPortOption, [given |-> TRUE, value |-> 9999]}

\* command-line arguments: flags that match the pattern and near misses
ArgWords ==
  { <<"-", "p", "8", "0", "8", "0">>,
    <<"-", "p", "0", "0", "0">>,
    <<"-", "p", "9", "9", "9", "9", "9">>,
    <<"-", "p", "8", "0">>,
    <<"-", "p", "1", "2", "3", "4", "5", "6">>,
    <<"-", "P", "8", "0", "8", "1">>,
    <<"-", "p", "8", "0", "a", "2">> }

ArgLists == UNION {[1..n -> ArgWords] : n \in 0..MaxArgs}

\* header strings tried at startup: a value with a colon, a value after a
\* blank under the same name, no colon at all, nothing before the colon
XBlank == <<"X-Extra", ":", " ", "c">>
XBare == <<"x-bare">>
NoName == <<":", "v">>

StartupHeaderWords == {XExtra, XBlank, XBare, NoName}

StartupHeaderChoices ==
  {[given |-> FALSE, list |-> <<>>]}
    \cup {[given |-> TRUE, list |-> l] :
            l \in UNION {[1..n -> StartupHeaderWords] : n \in 0..MaxHeaders}}

-----------------------------------------------------------------------------
(* Requests, the document root and the probe *)

Slash == <<"/">>
Dot == <<".">>
IndexHtml == <<"i", "n", "d", "e", "x", ".", "h", "t", "m", "l">>

DHtml == <<"d", ".", "h", "t", "m", "l">>
DHtm == <<"d", ".", "h", "t", "m">>

\* a request: its method and the parts of new URL(req.url)
Req(method, pathname, search, hash, username, password) ==
  [ method |-> method, pathname |-> pathname, search |-> search, hash |-> hash,
    username |-> username, password |-> password ]

Get(pathname) == Req("GET", pathname, "", "", "", "")

\* the requests the listener delivers: method and URL path
Requests == { Get(Slash), Get(<<"/", "a">>), Get(<<"/", "x">>) }

\* the working directories: the one httpd() started in, and any other
DocrootDir == "docroot"
OtherDir == "elsewhere"

\* what exists under the document root: the directory itself and three files
Docroot == {Dot, <<"a">>, DHtml, DHtm}

\* what exists outside the document root, by absolute path
Outside == {<<"/", "e">>}

\* line 52: url.pathname.slice(1) || (opts.ls ? '.' : 'index.html')
Candidate(pathname, o) ==
  LET stripped == Tail(pathname)
  IN  IF stripped # <<>> THEN stripped
      ELSE IF Truthy(o, "ls") THEN Dot ELSE IndexHtml

\* line 50: Deno.chdir(docroot)
ChdirSkipped(dir, to) == dir

Chdir(dir, to) == to

\* line 52: Deno.statSync returns for a file or directory and throws otherwise;
\* a relative path is resolved against the working directory, an absolute one is not
StatSyncOk(candidate, dir) ==
  IF Head(candidate) = "/" THEN candidate \in Outside
  ELSE \/ candidate = Dot
       \/ dir = DocrootDir /\ candidate \in Docroot

\* String.prototype.endsWith
EndsWith(s, suffix) ==
  /\ Len(s) >= Len(suffix)
  /\ SubSeq(s, Len(s) - Len(suffix) + 1, Len(s)) = suffix

\* lines 56-59
safe_htm(q) ==
  /\ q.method = "GET"
  /\ q.search = ""
  /\ q.hash = ""
  /\ q.username = ""
  /\ q.password = ""
  /\ \/ EndsWith(q.pathname, <<".", "h", "t", "m", "l">>)
     \/ EndsWith(q.pathname, <<".", "h", "t", "m">>)

\* line 64: e.match(/^content-security-policy/), a case-sensitive prefix match
\* on the header string, decided here for the header names of the model
MatchesCsp(e) ==
  /\ e # <<>>
  /\ e[1] \in {"content-security-policy", "content-security-policy-report-only"}

\* line 64: (opts.headers ?? []).filter((e) => !safe_htm || !e.match(...))
FilterHeadersUnfiltered(list, safe) == list

FilterHeaders(list, safe) == SelectSeq(list, LAMBDA e : ~safe \/ ~MatchesCsp(e))

\* lines 61-65
EnableCors(o) == IF In("cors", o) THEN o["cors"] ELSE TRUE

ShowDirListing(o) == IF In("ls", o) THEN o["ls"] ELSE TRUE

ServeOpts(o, oh, q) ==
  [ enableCors |-> EnableCors(o),
    showDirListing |-> ShowDirListing(o),
    headers |-> FilterHeaders(HeaderList(oh), safe_htm(q)) ]

NoServeOpts == [enableCors |-> FALSE, showDirListing |-> FALSE, headers |-> <<>>]

-----------------------------------------------------------------------------
(* Responses, the error page and the access log *)

NoResp == [status |-> 0, headers |-> <<>>, body |-> <<>>]

\* new Response(body, { status, headers })
Response(body, status, headers) ==
  [status |-> status, headers |-> HeadersCopy(headers), body |-> body]

\* lines 90-178: the page is fixed but for the message
error(msg) == <<"<center><svg>", msg, "</center>">>

\* line 181: function log(req, status = 200)
LogDefaultStatus == 200

\* lines 181-188: one line per call, with method, path and status
logSilent(logged, req, status) == logged

log(logged, req, status) ==
  Append(logged, [method |-> req.method, pathname |-> req.pathname, status |-> status])

\* what serveDir may resolve with; its headers and body are its own business
StaticResponses ==
  { [status |-> st, headers |-> <<>>, body |-> Str("static")] : st \in {200, 304} }

-----------------------------------------------------------------------------
(* The caller's handler: any function of the request and the headers object. *)
(* One call is described by what it does to the headers object and how it    *)
(* ends: with a Response, with nothing, by throwing, or with a promise.      *)

XHandler == Str("x-handler")

HeaderMutations == {"none", "plain", "delete"}

Mutate(h, mut) ==
  CASE mut = "none" -> h
    [] mut = "plain" -> HeadersSet(HeadersAppend(h, XHandler, Str("1")), ContentType, TextPlain)
    [] mut = "delete" -> HeadersDelete(h, ContentType)

Details == {"e1", "e2"}

HandlerStatuses == {200, 201}

Behaviours ==
  [mut : HeaderMutations, kind : {"response"}, status : HandlerStatuses, detail : {""}]
    \cup [mut : HeaderMutations, kind : {"nothing", "pending"}, status : {0}, detail : {""}]
    \cup [mut : HeaderMutations, kind : {"throw"}, status : {0}, detail : Details]

\* the one way a call ends when no handler was passed: line 70 yields undefined
NoHandlerCall == [mut |-> "none", kind |-> "nothing", status |-> 0, detail |-> ""]

\* how a promise returned by the handler settles
Settlements ==
  [kind : {"response"}, status : HandlerStatuses, detail : {""}]
    \cup [kind : {"nothing"}, status : {0}, detail : {""}]
    \cup [kind : {"reject"}, status : {0}, detail : Details]

HandlerBody == Str("details")

-----------------------------------------------------------------------------
(* One invocation of the Deno.serve callback *)

NoReq == Req("", <<>>, "", "", "", "")
NoRes == [kind |-> "none", resp |-> NoResp, detail |-> ""]

IdleTask ==
  [ pc |-> "idle",            \* idle, serveDir (awaiting it), pending (returned the handler's promise), done
    req |-> NoReq,
    cwdBefore |-> "",         \* the working directory when the request arrived
    probeDir |-> "",          \* the working directory when Deno.statSync ran
    candidate |-> <<>>,       \* the path handed to Deno.statSync
    statOk |-> FALSE,         \* whether Deno.statSync returned
    serve_opts |-> NoServeOpts,
    staticCalls |-> 0,        \* calls of serveDir
    staticRes |-> NoRes,      \* how serveDir's promise settled
    handlerCalls |-> 0,       \* calls of the handler
    given |-> <<>>,           \* the headers object as the handler received it
    givenReq |-> NoReq,       \* the request the handler received
    catchRuns |-> 0,          \* entries into the catch block
    left |-> <<>>,            \* the headers object as the handler call left it
    headers |-> <<>>,         \* the headers object of line 68 as it is now
    res |-> NoRes,            \* what the handler call produced
    settled |-> NoRes,        \* how the handler's promise settled
    out |-> NoRes,            \* what the callback's own promise settles with
    logged |-> <<>>,          \* the lines log() wrote for this request
    warned |-> <<>> ]         \* the records console.warn wrote for this request

\* line 73: return res
ReturnResTypeReset(resp) == [resp EXCEPT !.headers = HeadersSet(@, ContentType, TextHtml)]

ReturnRes(resp) == resp

\* lines 77-79
InternalErrorWithDetail(t, hdrs, detail) ==
  LET h == HeadersSet(hdrs, ContentType, TextHtml)
  IN  [t EXCEPT !.warned = Append(@, detail),
                !.logged = log(@, t.req, 500),
                !.headers = h,
                !.out = [kind |-> "response",
                         resp |-> Response(error(detail), 500, h),
                         detail |-> ""],
                !.pc = "done"]

InternalError(t, hdrs, detail) ==
  LET h == HeadersSet(hdrs, ContentType, TextHtml)
  IN  [t EXCEPT !.warned = Append(@, detail),
                !.logged = log(@, t.req, 500),
                !.headers = h,
                !.out = [kind |-> "response",
                         resp |-> Response(error("Internal Server Error"), 500, h),
                         detail |-> ""],
                !.pc = "done"]

\* lines 82-84
NotFoundTypeKept(t, hdrs) ==
  [t EXCEPT !.logged = log(@, t.req, 404),
            !.out = [kind |-> "response",
                     resp |-> Response(error("Not Found"), 404, hdrs),
                     detail |-> ""],
            !.pc = "done"]

NotFound(t, hdrs) ==
  LET h == HeadersSet(hdrs, ContentType, TextHtml)
  IN  [t EXCEPT !.logged = log(@, t.req, 404),
                !.headers = h,
                !.out = [kind |-> "response",
                         resp |-> Response(error("Not Found"), 404, h),
                         detail |-> ""],
                !.pc = "done"]

\* lines 71-74 for a Response: log(req) and return it
Returned(t, resp) ==
  [t EXCEPT !.logged = log(@, t.req, LogDefaultStatus),
            !.out = [kind |-> "response", resp |-> ReturnRes(resp), detail |-> ""],
            !.pc = "done"]

\* lines 71-74 for a promise: it is truthy, so log(req) and return it unawaited;
\* the callback's promise then settles as the handler's promise does
ReturnedPending(t) ==
  [t EXCEPT !.logged = log(@, t.req, LogDefaultStatus),
            !.pc = "pending"]

\* lines 68-84, the catch block, with the handler call behaving as b
CatchBlock(t, b) ==
  LET given == HeadersCopy(headers_defaults)
      hdrs == IF handler THEN Mutate(given, b.mut) ELSE given
      t1 == [t EXCEPT !.handlerCalls = IF handler THEN @ + 1 ELSE @,
                      !.given = given,
                      !.givenReq = IF handler THEN t.req ELSE @,
                      !.catchRuns = @ + 1,
                      !.left = hdrs,
                      !.headers = hdrs]
  IN  CASE b.kind = "response" ->
             LET resp == Response(HandlerBody, b.status, hdrs)
             IN  Returned([t1 EXCEPT !.res = [kind |-> "response", resp |-> resp, detail |-> ""]],
                          resp)
        [] b.kind = "pending" ->
             ReturnedPending([t1 EXCEPT !.res = [kind |-> "pending", resp |-> NoResp, detail |-> ""]])
        [] b.kind = "throw" ->
             InternalError([t1 EXCEPT !.res = [kind |-> "throw", resp |-> NoResp, detail |-> b.detail]],
                           hdrs, b.detail)
        [] b.kind = "nothing" ->
             NotFound([t1 EXCEPT !.res = [kind |-> "nothing", resp |-> NoResp, detail |-> ""]],
                      hdrs)

\* the calls the handler argument allows
Calls == IF handler THEN Behaviours ELSE {NoHandlerCall}

\* lines 50-52: the probe of request q
Probed(q) ==
  LET c == Candidate(q.pathname, opts)
      dir == Chdir(cwd, DocrootDir)
  IN  [IdleTask EXCEPT !.req = q, !.cwdBefore = cwd, !.probeDir = dir, !.candidate = c,
                       !.statOk = StatSyncOk(c, dir)]

-----------------------------------------------------------------------------
(* Actions *)

\* httpd() has run and the listener is up
Init ==
  /\ args = <<>>
  /\ optPort = NoPortOption
  /\ opts \in OptsObjects
  /\ optHeaders \in OptHeaderChoices
  /\ handler \in BOOLEAN
  /\ port = ResolvePort(optPort, args)
  /\ phase = "listening"
  /\ cwd = DocrootDir
  /\ headers_defaults = BuildHeadersDefaults(opts, optHeaders)
  /\ task = [r \in Slots |-> IdleTask]
  /\ served = 0

\* lines 48-66: the probe succeeds and serveDir is called and awaited
RequestStaticFrom(r, Q) ==
  /\ phase = "listening"
  /\ task[r].pc = "idle"
  /\ served < MaxRequests
  /\ \E q \in Q :
       /\ Probed(q).statOk
       /\ task' = [task EXCEPT ![r] =
                     [Probed(q) EXCEPT !.pc = "serveDir",
                                       !.serve_opts = ServeOpts(opts, optHeaders, q),
                                       !.staticCalls = @ + 1]]
  /\ cwd' = Chdir(cwd, DocrootDir)
  /\ served' = served + 1
  /\ UNCHANGED <<startup, headers_defaults>>

RequestStatic(r) == RequestStaticFrom(r, Requests)

\* lines 48-52 and 67-85: Deno.statSync throws and the catch block runs
RequestDynamicFrom(r, Q) ==
  /\ phase = "listening"
  /\ task[r].pc = "idle"
  /\ served < MaxRequests
  /\ \E q \in Q, b \in Calls :
       /\ ~Probed(q).statOk
       /\ task' = [task EXCEPT ![r] = CatchBlock(Probed(q), b)]
       /\ headers_defaults' =
            TemplateAfter(headers_defaults, CatchBlock(Probed(q), b).left)
  /\ cwd' = Chdir(cwd, DocrootDir)
  /\ served' = served + 1
  /\ UNCHANGED <<startup>>

RequestDynamic(r) == RequestDynamicFrom(r, Requests)

\* line 66: serveDir's promise fulfils and its response is returned
ServeDirResolve(r) ==
  /\ task[r].pc = "serveDir"
  /\ \E resp \in StaticResponses :
       task' = [task EXCEPT ![r] =
                  [@ EXCEPT !.staticRes = [kind |-> "response", resp |-> resp, detail |-> ""],
                            !.out = [kind |-> "response", resp |-> resp, detail |-> ""],
                            !.pc = "done"]]
  /\ UNCHANGED <<startup, cwd, headers_defaults, served>>

\* lines 66-85: serveDir's promise rejects inside the try and the catch block runs
ServeDirReject(r) ==
  /\ task[r].pc = "serveDir"
  /\ \E b \in Calls :
       LET t == [task[r] EXCEPT !.staticRes = [kind |-> "reject", resp |-> NoResp, detail |-> ""]]
       IN  /\ task' = [task EXCEPT ![r] = CatchBlock(t, b)]
           /\ headers_defaults' = TemplateAfter(headers_defaults, CatchBlock(t, b).left)
  /\ UNCHANGED <<startup, cwd, served>>

\* the promise returned on line 73 settles; nothing in the callback awaits it
HandlerSettle(r) ==
  /\ task[r].pc = "pending"
  /\ \E s \in Settlements :
       task' = [task EXCEPT ![r] =
                  [@ EXCEPT !.settled = [kind |-> s.kind,
                                         resp |-> IF s.kind = "response"
                                                  THEN Response(HandlerBody, s.status, task[r].headers)
                                                  ELSE NoResp,
                                         detail |-> s.detail],
                            !.out = CASE s.kind = "response" ->
                                           [kind |-> "response",
                                            resp |-> ReturnRes(Response(HandlerBody, s.status, task[r].headers)),
                                            detail |-> ""]
                                      [] s.kind = "nothing" ->
                                           [kind |-> "undefined", resp |-> NoResp, detail |-> ""]
                                      [] s.kind = "reject" ->
                                           [kind |-> "rejected", resp |-> NoResp, detail |-> s.detail],
                            !.pc = "done"]]
  /\ UNCHANGED <<startup, cwd, headers_defaults, served>>

\* a handler whose promise is still pending calls Deno.chdir: the working
\* directory is the process's, not the request's
HandlerChdir(r) ==
  /\ task[r].pc = "pending"
  /\ cwd' = OtherDir
  /\ UNCHANGED <<startup, headers_defaults, task, served>>

\* the listener has sent the answer; the slot takes the next request
Retire(r) ==
  /\ task[r].pc = "done"
  /\ task' = [task EXCEPT ![r] = IdleTask]
  /\ UNCHANGED <<startup, cwd, headers_defaults, served>>

Next ==
  \E r \in Slots :
    \/ RequestStatic(r)
    \/ RequestDynamic(r)
    \/ ServeDirResolve(r)
    \/ ServeDirReject(r)
    \/ HandlerSettle(r)
    \/ HandlerChdir(r)
    \/ Retire(r)

Spec == Init /\ [][Next]_vars

-----------------------------------------------------------------------------
(* httpd() itself, lines 26-47, over many option objects and command lines *)

InitStartup ==
  /\ args \in ArgLists
  /\ optPort \in PortOptions
  /\ opts \in UNION {[S -> BOOLEAN] : S \in SUBSET {"cors"}}
  /\ optHeaders \in StartupHeaderChoices
  /\ handler = FALSE
  /\ port = 0
  /\ phase = "starting"
  /\ cwd = DocrootDir
  /\ headers_defaults = <<>>
  /\ task = [r \in Slots |-> IdleTask]
  /\ served = 0

\* lines 26-47: the port, the header template, then Deno.serve; a TypeError
\* from headers_defaults.append leaves httpd() before it listens
Httpd ==
  /\ phase = "starting"
  /\ port' = ResolvePort(optPort, args)
  /\ IF BuildThrows(optHeaders)
     THEN /\ phase' = "failed"
          /\ UNCHANGED headers_defaults
     ELSE /\ phase' = "listening"
          /\ headers_defaults' = BuildHeadersDefaults(opts, optHeaders)
  /\ UNCHANGED <<args, optPort, opts, optHeaders, handler, cwd, task, served>>

NextStartup == Httpd

SpecStartup == InitStartup /\ [][NextStartup]_vars

-----------------------------------------------------------------------------
(* The try block over many URLs and header lists, with no handler passed *)

CspLower == <<"content-security-policy", ":", "default-src 'self'">>
CspCanonical == <<"Content-Security-Policy", ":", "default-src 'self'">>
CspReportOnly == <<"content-security-policy-report-only", ":", "default-src 'self'">>

UrlHeaderChoices ==
  { [given |-> FALSE, list |-> <<>>],
    [given |-> TRUE, list |-> <<CspLower>>],
    [given |-> TRUE, list |-> <<CspCanonical>>],
    [given |-> TRUE, list |-> <<XExtra, CspLower, CspReportOnly>>] }

UrlRequests ==
  { Get(Slash),
    Get(<<"/", "a">>),
    Get(<<"/">> \o DHtml),
    Get(<<"/">> \o DHtm),
    Get(<<"/", "x", ".", "h", "t", "m", "l">>),
    Get(<<"/", "/", "e">>),
    Req("POST", <<"/">> \o DHtml, "", "", "", ""),
    Req("GET", <<"/">> \o DHtml, "?x=1", "", "", ""),
    Req("GET", <<"/">> \o DHtml, "", "#top", "", ""),
    Req("GET", <<"/">> \o DHtml, "", "", "user", ""),
    Req("GET", <<"/">> \o DHtml, "", "", "", "secret") }

InitUrls ==
  /\ args = <<>>
  /\ optPort = NoPortOption
  /\ opts \in OptsObjects
  /\ optHeaders \in UrlHeaderChoices
  /\ handler = FALSE
  /\ port = ResolvePort(optPort, args)
  /\ phase = "listening"
  /\ cwd = DocrootDir
  /\ headers_defaults = BuildHeadersDefaults(opts, optHeaders)
  /\ task = [r \in Slots |-> IdleTask]
  /\ served = 0

NextUrls ==
  \E r \in Slots :
    \/ RequestStaticFrom(r, UrlRequests)
    \/ RequestDynamicFrom(r, UrlRequests)
    \/ ServeDirResolve(r)
    \/ ServeDirReject(r)
    \/ Retire(r)

SpecUrls == InitUrls /\ [][NextUrls]_vars

-----------------------------------------------------------------------------
(* Properties *)

ContentTypeOf(h) == HeadersGet(h, ContentType)

OnlyTextHtml == << <<ContentType, TextHtml>> >>

LogLine(q, status) == [method |-> q.method, pathname |-> q.pathname, status |-> status]

PageResponse(r, msg, status) ==
  /\ task[r].out.kind = "response"
  /\ task[r].out.resp.status = status
  /\ task[r].out.resp.body = error(msg)
  /\ ContentTypeOf(task[r].out.resp.headers) = OnlyTextHtml

\* C1: a request whose probe succeeded is answered with serveDir's response,
\* its handler is never called, and exactly one of the two paths (serveDir,
\* catch block) runs for it, whatever serveDir does after the probe.
C1_StaticNeverReachesHandler ==
  \A r \in Slots :
    (task[r].pc # "idle" /\ task[r].statOk) =>
      /\ task[r].handlerCalls = 0
      /\ task[r].staticCalls + task[r].catchRuns = 1
      /\ task[r].pc = "done" =>
           /\ task[r].staticRes.kind = "response"
           /\ task[r].out = task[r].staticRes

\* C2: a request whose probe failed never reaches serveDir, and a configured
\* handler is called exactly once for it, with that request and with a headers
\* object equal to the default header set built at startup.
C2_ProbeMissCallsHandlerOnce ==
  \A r \in Slots :
    (task[r].pc # "idle" /\ ~task[r].statOk) =>
      /\ task[r].staticCalls = 0
      /\ task[r].catchRuns = 1
      /\ handler =>
           /\ task[r].handlerCalls = 1
           /\ task[r].givenReq = task[r].req
           /\ task[r].given = BuildHeadersDefaults(opts, optHeaders)
      /\ ~handler => task[r].handlerCalls = 0

C2_Witness ==
  \E r \in Slots :
    /\ task[r].pc = "done"
    /\ ~task[r].statOk
    /\ task[r].handlerCalls = 1
    /\ task[r].left # task[r].given
    /\ served > 1

\* C3: when the handler returns a Response, the callback returns that very
\* response: same status, same headers, same body.
C3_HandlerResponseVerbatim ==
  \A r \in Slots :
    (task[r].pc = "done" /\ task[r].res.kind = "response") =>
      /\ task[r].out.kind = "response"
      /\ task[r].out.resp = task[r].res.resp

C3_Witness ==
  \E r \in Slots :
    /\ task[r].pc = "done"
    /\ task[r].res.kind = "response"
    /\ task[r].res.resp.status = 201
    /\ ContentTypeOf(task[r].res.resp.headers) = << <<ContentType, TextPlain>> >>
    /\ task[r].out.resp.body = HandlerBody

\* C4: when the handler returns nothing, or there is no handler, the answer is
\* the "Not Found" page with status 404 and content-type text/html, every other
\* header is as the handler left it, and 404 is logged.
C4_NothingGives404 ==
  \A r \in Slots :
    (task[r].pc = "done" /\ task[r].res.kind = "nothing") =>
      /\ PageResponse(r, "Not Found", 404)
      /\ HeadersDelete(task[r].out.resp.headers, ContentType)
           = HeadersDelete(task[r].left, ContentType)
      /\ task[r].logged = <<LogLine(task[r].req, 404)>>

C4_Witness ==
  \E r \in Slots :
    /\ task[r].pc = "done"
    /\ task[r].res.kind = "nothing"
    /\ task[r].handlerCalls = 1
    /\ ContentTypeOf(task[r].left) = << <<ContentType, TextPlain>> >>
    /\ HeadersHas(task[r].out.resp.headers, XHandler)
    /\ task[r].out.resp.status = 404

\* C5: when the handler throws, the answer is the fixed "Internal Server
\* Error" page with status 500 and content-type text/html, 500 is logged, and
\* the failure detail is in the console.warn record only.
C5_ThrowGives500 ==
  \A r \in Slots :
    (task[r].pc = "done" /\ task[r].res.kind = "throw") =>
      /\ PageResponse(r, "Internal Server Error", 500)
      /\ task[r].logged = <<LogLine(task[r].req, 500)>>
      /\ task[r].warned = <<task[r].res.detail>>
      /\ \A i \in 1..Len(task[r].out.resp.body) :
           task[r].out.resp.body[i] # task[r].res.detail

C5_Witness ==
  \E r \in Slots :
    /\ task[r].pc = "done"
    /\ task[r].res.kind = "throw"
    /\ task[r].res.detail = "e2"
    /\ task[r].left # task[r].given
    /\ task[r].out.resp.status = 500

\* C6: when the handler returns a promise that rejects, the request ends as
\* in the handler-threw case: 500 is logged and the "Internal Server Error"
\* page is returned with status 500 and content-type text/html.
C6_RejectionGives500 ==
  \A r \in Slots :
    (task[r].pc = "done" /\ task[r].res.kind = "pending" /\ task[r].settled.kind = "reject") =>
      /\ PageResponse(r, "Internal Server Error", 500)
      /\ task[r].logged = <<LogLine(task[r].req, 500)>>

\* C7: when the handler returns a promise that resolves to nothing, the
\* request ends as for a handler that returns nothing: 404 is logged and the
\* "Not Found" page is returned with status 404.
C7_PendingNothingGives404 ==
  \A r \in Slots :
    (task[r].pc = "done" /\ task[r].res.kind = "pending" /\ task[r].settled.kind = "nothing") =>
      /\ PageResponse(r, "Not Found", 404)
      /\ task[r].logged = <<LogLine(task[r].req, 404)>>

TemplateHasCors(h) == HeadersHas(h, AllowOrigin) /\ HeadersHas(h, AllowHeaders)

\* C9: the default header template holds the CORS headers exactly when cors
\* resolves to true (true when the key is absent, the given value otherwise),
\* which is the enableCors flag handed to serveDir.
C9_TemplateCorsAsResolved ==
  /\ TemplateHasCors(headers_defaults) <=> EnableCors(opts)
  /\ \A r \in Slots :
       task[r].staticCalls > 0 =>
         (TemplateHasCors(headers_defaults) <=> task[r].serve_opts.enableCors)

\* C10: for an empty stripped path the probe candidate is "." exactly when ls
\* resolves to true (true when the key is absent) and "index.html" otherwise,
\* which is the showDirListing flag handed to serveDir.
C10_EmptyPathCandidateAsResolved ==
  \A r \in Slots :
    (task[r].pc # "idle" /\ Tail(task[r].req.pathname) = <<>>) =>
      /\ task[r].candidate = Dot <=> ShowDirListing(opts)
      /\ task[r].candidate = IndexHtml <=> ~ShowDirListing(opts)
      /\ task[r].staticCalls > 0 =>
           (task[r].candidate = Dot <=> task[r].serve_opts.showDirListing)

HeaderNameOf(e) == Lower(Split(e)[1])

IsSafeHtmlGet(q) ==
  /\ q.method = "GET"
  /\ q.search = "" /\ q.hash = "" /\ q.username = "" /\ q.password = ""
  /\ \/ EndsWith(q.pathname, <<".", "h", "t", "m">>)
     \/ EndsWith(q.pathname, <<".", "h", "t", "m", "l">>)

\* C11: the header list handed to serveDir holds no content-security-policy
\* entry, in whatever case the name was configured, for a GET of a .htm/.html
\* path with no query, fragment, username or password; for every other
\* request it is the configured list unchanged.
C11_SafeHtmlGetsNoCsp ==
  \A r \in Slots :
    task[r].staticCalls > 0 =>
      LET list == task[r].serve_opts.headers
      IN  IF IsSafeHtmlGet(task[r].req)
          THEN \A i \in 1..Len(list) :
                 HeaderNameOf(list[i]) # Str("content-security-policy")
          ELSE list = HeaderList(optHeaders)

\* "-p" followed by three to five decimal digits, and nothing else
IsPortFlag(e) ==
  \E n \in 3..5 :
    /\ Len(e) = n + 2
    /\ SubSeq(e, 1, 2) = <<"-", "p">>
    /\ \A i \in 3..(n + 2) : e[i] \in Digits

RECURSIVE DecimalFrom(_, _)
DecimalFrom(digits, acc) ==
  IF digits = <<>> THEN acc
  ELSE DecimalFrom(Tail(digits), 10 * acc + DigitValue(Head(digits)))

FirstPortFlag == CHOOSE i \in 1..Len(args) :
  /\ IsPortFlag(args[i])
  /\ \A j \in 1..(i - 1) : ~IsPortFlag(args[j])

\* C12: the port is the port option when one is given; otherwise the digits of
\* the first argument that is exactly -p and three to five digits; otherwise
\* 5000. Arguments that do not match are ignored.
C12_PortResolution ==
  phase # "starting" =>
    port = IF optPort.given THEN optPort.value
           ELSE IF \E i \in 1..Len(args) : IsPortFlag(args[i])
                THEN DecimalFrom(SubSeq(args[FirstPortFlag], 3, Len(args[FirstPortFlag])), 0)
                ELSE 5000

C12_Witness ==
  /\ phase = "listening"
  /\ ~optPort.given
  /\ Len(args) = 2
  /\ ~IsPortFlag(args[1])
  /\ args[2] = <<"-", "p", "8", "0", "8", "0">>
  /\ port = 8080

\* C20: with no port option the port is an integer in 1..65535: a flag whose
\* digits give a port outside that range is ignored in favour of 5000.
C20_PortInRange ==
  (phase # "starting" /\ ~optPort.given) => port \in 1..65535

\* position of the first colon of a header string, or one past its end
FirstColon(e) ==
  IF \E i \in 1..Len(e) : e[i] = ":"
  THEN CHOOSE i \in 1..Len(e) : e[i] = ":" /\ \A j \in 1..(i - 1) : e[j] # ":"
  ELSE Len(e) + 1

BeforeFirstColon(e) == SubSeq(e, 1, FirstColon(e) - 1)

AfterFirstColon(e) == SubSeq(e, FirstColon(e) + 1, Len(e))

Blank(v) == \A i \in 1..Len(v) : v[i] = " "

\* v without the blanks at its two ends
Stripped(v) ==
  IF Blank(v) THEN <<>>
  ELSE LET a == CHOOSE i \in 1..Len(v) : v[i] # " " /\ \A j \in 1..(i - 1) : v[j] = " "
           b == CHOOSE i \in 1..Len(v) : v[i] # " " /\ \A j \in (i + 1)..Len(v) : v[j] = " "
       IN  SubSeq(v, a, b)

CorsPair ==
  << <<AllowOrigin, Str("*")>>, <<AllowHeaders, AllowHeadersValue>> >>

\* the template is content-type, then one entry per configured string in
\* input order, then the CORS headers or nothing; the CORS headers when cors
\* is given as true, nothing when it is given as false
TemplateLaidOut(h, list, values(_)) ==
  LET n == Len(list)
      rest == SubSeq(h, n + 2, Len(h))
  IN  /\ Len(h) >= n + 1
      /\ h[1] = <<ContentType, TextHtml>>
      /\ \A i \in 1..n :
           h[i + 1] = <<Lower(BeforeFirstColon(list[i])), values(list[i])>>
      /\ rest \in {<<>>, CorsPair}
      /\ (In("cors", opts) /\ opts["cors"]) => rest = CorsPair
      /\ (In("cors", opts) /\ ~opts["cors"]) => rest = <<>>

\* C19, as claimed: content-type first, then per configured string the name
\* before the first colon and as value all the text after it, repeated names
\* retained, then the CORS headers when enabled; a string with an empty name
\* causes no failure.
C19_TemplateFromAnyStrings ==
  phase # "starting" =>
    /\ phase = "listening"
    /\ TemplateLaidOut(headers_defaults, HeaderList(optHeaders), AfterFirstColon)

StoredValue(e) == Stripped(AfterFirstColon(e))

\* C19, amended: httpd() throws before listening exactly when some configured
\* string has no valid name before its first colon; otherwise the template is
\* laid out as claimed, each value being the text after the first colon
\* without the blanks at its two ends.
C19_TemplateFromValidStrings ==
  phase # "starting" =>
    LET list == HeaderList(optHeaders)
        bad == \E i \in 1..Len(list) :
                 \/ BeforeFirstColon(list[i]) = <<>>
                 \/ \E k \in 1..Len(BeforeFirstColon(list[i])) : list[i][k] = " "
    IN  /\ phase = "failed" <=> bad
        /\ phase = "listening" =>
             TemplateLaidOut(headers_defaults, list, StoredValue)

C19_Witness ==
  /\ phase = "listening"
  /\ optHeaders.given
  /\ optHeaders.list = <<XExtra, XBlank>>
  /\ In("cors", opts) /\ opts["cors"]
  /\ Len(headers_defaults) = 5
  /\ headers_defaults[2] = <<Str("x-extra"), <<"a", ":", "b">> >>
  /\ headers_defaults[3] = <<Str("x-extra"), Str("c")>>

\* C13: every handler call receives a headers object equal to the template
\* built at startup, whatever the handlers of other requests in flight did to
\* theirs, and the template is never changed after startup.
C13_TemplateIsolated ==
  /\ headers_defaults = BuildHeadersDefaults(opts, optHeaders)
  /\ \A r \in Slots :
       task[r].handlerCalls > 0 => task[r].given = headers_defaults

\* two requests in flight at once, each of whose handlers changed its headers
\* object, in different ways
C13_Witness ==
  /\ \A r \in Slots :
       /\ task[r].pc = "pending"
       /\ task[r].handlerCalls = 1
       /\ task[r].left # task[r].given
  /\ task["r1"].left # task["r2"].left
  /\ task["r1"].given = task["r2"].given

IsStaticAnswer(t) ==
  t.staticRes.kind = "response" /\ t.out = t.staticRes

IsHandlerAnswer(t) ==
  /\ t.out.kind = "response"
  /\ \/ t.res.kind = "response" /\ t.out.resp = t.res.resp
     \/ t.res.kind = "pending" /\ t.settled.kind = "response"
          /\ t.out.resp = t.settled.resp

IsErrorPage(t, msg, status) ==
  /\ t.out.kind = "response"
  /\ t.out.resp.status = status
  /\ t.out.resp.body = error(msg)

\* C14: the callback's promise never rejects and never fulfils with something
\* that is no Response: every finished request ended as serveDir's response,
\* the handler's response, the 404 page or the 500 page.
C14_EveryRequestEndsAsResponse ==
  \A r \in Slots :
    task[r].pc = "done" =>
      \/ IsStaticAnswer(task[r])
      \/ IsHandlerAnswer(task[r])
      \/ IsErrorPage(task[r], "Not Found", 404)
      \/ IsErrorPage(task[r], "Internal Server Error", 500)

\* C15: for a request answered by the handler's response, the one log line
\* carries the status of that response.
C15_LoggedStatusIsResponseStatus ==
  \A r \in Slots :
    (task[r].pc = "done" /\ IsHandlerAnswer(task[r])) =>
      task[r].logged = <<LogLine(task[r].req, task[r].out.resp.status)>>

\* C16: while the promise the handler returned is still pending, nothing has
\* been logged for the request.
C16_NoLogLineWhilePending ==
  \A r \in Slots :
    task[r].pc = "pending" => task[r].logged = <<>>

\* C17: Deno.statSync runs in the docroot fixed at startup, whatever the
\* working directory was when the request arrived, so the probe finds exactly
\* what exists there.
C17_ProbeRunsInDocroot ==
  \A r \in Slots :
    task[r].pc # "idle" =>
      /\ task[r].probeDir = DocrootDir
      /\ (task[r].candidate \in Docroot) => task[r].statOk

\* a handler in flight had moved the process elsewhere when the request came
C17_Witness ==
  \E r \in Slots :
    /\ task[r].pc # "idle"
    /\ task[r].cwdBefore = OtherDir
    /\ task[r].candidate = <<"a">>
    /\ task[r].statOk
    /\ task[r].staticCalls = 1

IsAbsolute(candidate) == candidate # <<>> /\ candidate[1] = "/"

\* C18: the probe succeeds only for a candidate under the docroot; a request
\* whose candidate is an absolute location, such as //e, is given to the
\* catch block and never to serveDir.
C18_ProbeStaysUnderDocroot ==
  \A r \in Slots :
    task[r].pc # "idle" =>
      /\ task[r].statOk =>
           ~IsAbsolute(task[r].candidate) /\ task[r].candidate \in Docroot
      /\ IsAbsolute(task[r].candidate) =>
           task[r].staticCalls = 0 /\ task[r].catchRuns = 1

====
